---------------------------- MODULE Spec2Model ----------------------------
(***************************************************************************)
(* State-machine model of the pyinsteon device types                       *)
(*   pyinsteon/device_types/climate_control.py                              *)
(*     ClimateControl_Thermostat, ClimateControl_WirelessThermostat         *)
(*   pyinsteon/device_types/switched_lighting_control.py                    *)
(*     SwitchedLightingControl_KeypadLinc (6 button layout)                 *)
(*     SwitchedLightingControl_OnOffOutlet                                  *)
(*                                                                          *)
(* One device object is modelled per behaviour; "device" names its class.  *)
(* Every public call is a record of "calls"; an asyncio coroutine is cut   *)
(* into atomic steps at its awaits (asyncio runs one callback at a time).  *)
(* Collaborators that live outside the two files (command handlers, group  *)
(* values, the status manager, the run-on-wake gate, utils) are modelled   *)
(* from the written specification and are marked so in MODEL_MAP.json.     *)
(***************************************************************************)
EXTENDS Integers, Sequences, FiniteSets, TLC

VARIABLES
    device,         \* class of the device object
    calls,          \* the public calls made so far, in call order
    groups,         \* self._groups: group id -> value
    celsius,        \* self._config[CELSIUS].value: "None", "False", "True"
    celsiusSub,     \* the subscriber registered on self._config[CELSIUS]
    nonToggleMask,  \* self._properties[NON_TOGGLE_MASK].value (committed)
    lockHolder,     \* self._on_off_lock: the call holding it, 0 when free
    lockWaiters,    \* calls suspended in self._on_off_lock.acquire(), FIFO
    awake,          \* battery device: awake and listening
    wakeQueue,      \* run-on-wake gate: deferred calls, FIFO
    running,        \* the deferred call the gate is executing, 0 when none
    aldb,           \* self.aldb.async_write / self.aldb.async_load bindings
    sendLog,        \* every transport send, in order: [call, kind]
    onMask,         \* self._properties[ON_MASK_<button>]: value, new_value
    offMask,        \* self._properties[OFF_MASK_<button>]: value, new_value
    toggleNew,      \* self._properties[NON_TOGGLE_MASK].new_value (pending)
    onOffMask,      \* self._properties[NON_TOGGLE_ON_OFF_MASK]: value, new_value
    lastOp,         \* the last configuration call or device report, and its outcome
    nops            \* configuration calls, reads and device reports so far

vars == <<device, calls, groups, celsius, celsiusSub, nonToggleMask,
          lockHolder, lockWaiters, awake, wakeQueue, running, aldb, sendLog,
          onMask, offMask, toggleNew, onOffMask, lastOp, nops>>

propVars == <<onMask, offMask, toggleNew, onOffMask, lastOp, nops>>

keypadVars == <<nonToggleMask, lockHolder, lockWaiters>>
thermoVars == <<celsius, celsiusSub>>
wakeVars   == <<awake, wakeQueue, running, aldb>>

(***************************************************************************)
(* Bounds of the model.                                                    *)
(***************************************************************************)
MaxCalls == 2
MaxOps == 3

(***************************************************************************)
(* Values.                                                                 *)
(***************************************************************************)
\* Python None held in an integer slot.
NoneVal == 0 - 1

\* ResponseStatus as the transport reports it.
ResponseStatuses == {"SUCCESS", "FAILURE", "DIRECT_NAK_PRE_NAK", "TIMEOUT"}

\* utils.bit_is_set(bitmask, bit); Python True is 1.
bit_is_set(bitmask, bit) == ((bitmask \div (2 ^ bit)) % 2) = 1

\* bool(value) of a group value: None and 0 are falsy.
PyBool(value) == value # NoneVal /\ value # 0

\* OnOff.set_value(on_level): 0xFF when on_level is truthy, else 0.
OnOffSetValue(on_level) == IF PyBool(on_level) THEN 255 ELSE 0

\* A call record as it is before anything has happened in it.
NewCall(op, arg, inflight) ==
    [op      |-> op,        \* the public operation called
     arg     |-> arg,       \* its argument (temperature, humidity, mode, group)
     pc      |-> "new",     \* position of the coroutine
     ran     |-> "",        \* the underlying operation executed for it
     sent    |-> NoneVal,   \* value handed to the command handler
     leds    |-> {},        \* SET_LEDS payload: the groups whose LED is on
     nsend   |-> 0,         \* command sends made by this call
     nstatus |-> 0,         \* async_status() calls made by this call
     result  |-> "NONE",    \* status the transport returned for the command
     ret     |-> "PENDING", \* what the caller got back
     events  |-> <<>>,      \* events triggered by this call: <<group, name, value>>
     raw     |-> NoneVal,   \* raw temperature (thermostat) or status byte
                            \* (keypad) of the status response decoded for it
     during  |-> inflight,  \* the calls that were in flight when it was made
     stored  |-> NoneVal,   \* the value the call stored in its own group
     stype   |-> NoneVal,   \* discriminator of the status response it received
     saved   |-> <<>>,      \* aldb bindings saved by the on-wake link routine
     frame   |-> <<>>]      \* the thermostat status frame decoded for it

InFlight == {j \in 1..Len(calls) : calls[j].pc = "awaiting"}

(***************************************************************************)
(* SwitchedLightingControl_KeypadLinc_6                                    *)
(***************************************************************************)
\* buttons of the 6 button keypad (group -> name, status type)
Buttons == {1, 3, 4, 5, 6}

\* Groups a caller passes to async_on / async_off: the main load, a group
\* that is no button of the device, and two LED buttons.
CallGroups == {1, 2, 3, 5}

\* Committed values of NON_TOGGLE_MASK the device can hold: not loaded, no
\* button non-toggle, bit 2 set (button 3), bits 2 and 3 set (buttons 3, 4).
NonToggleMasks == {NoneVal, 0, 4, 12}

\* Status bytes a status response can carry, and its discriminators.
StatusBytes == {0, 4, 255}
StatusTypes == {0, 1, 2, 3}

\* asyncio.Lock.acquire() returns at once only when the lock is free and no
\* other call is waiting for it.
LockFree_NoLock == TRUE
LockFree == lockHolder = 0 /\ lockWaiters = <<>>

\* _change_led_status(led, is_on): the LED state of groups 1..8.
ChangeLedStatus_NoOthers(led, is_on) == IF is_on THEN {led} ELSE {}
ChangeLedStatus(led, is_on) ==
    {curr_led \in 1..8 :
        IF curr_led = led
        THEN is_on
        ELSE curr_led \in DOMAIN groups /\ PyBool(groups[curr_led])}

\* _update_leds: the toggle check.
NonToggle(group) ==
    IF nonToggleMask # NoneVal THEN bit_is_set(nonToggleMask, group) ELSE FALSE

\* _update_leds(group, value, event): the group values after it.
UpdateLedsGroups(grps, group, value) ==
    IF group \notin DOMAIN grps
    THEN grps
    ELSE [grps EXCEPT ![group] = IF NonToggle(group) THEN 0 ELSE value]

\* _update_leds(group, value, event): the events it triggers.
UpdateLedsEvents(group, value, event) ==
    IF group \notin DOMAIN groups THEN <<>> ELSE << <<group, event, value>> >>

\* Statuses after which async_on / async_off refresh the status.
RefreshStatuses_All == ResponseStatuses \ {"SUCCESS"}
RefreshStatuses_None == {}
RefreshStatuses == {"DIRECT_NAK_PRE_NAK"}

\* Statuses after which async_on / async_off update the LED group.
UpdateStatuses_All == ResponseStatuses
UpdateStatuses == {"SUCCESS"}

\* super().async_on / async_off of the main load: on acknowledgement the
\* base class's handler stores the level in group 1.
BaseOnOffAck(grps, is_on) == [grps EXCEPT ![1] = IF is_on THEN 255 ELSE 0]

\* _led_status(db_version, status).
LedStatus_BitOfGroup(grps, status) ==
    [g \in DOMAIN grps |->
        IF g \in 2..8
        THEN (IF bit_is_set(status, g) THEN 1 ELSE 0)
        ELSE grps[g]]
LedStatus(grps, status) ==
    [g \in DOMAIN grps |->
        IF g \in 2..8
        THEN (IF bit_is_set(status, g - 1) THEN 1 ELSE 0)
        ELSE grps[g]]

\* Base class _handle_status(db_version, status) of the main load.
HandleStatus(grps, status) == [grps EXCEPT ![1] = OnOffSetValue(status)]

\* The status types the base class registers on the status manager, and the
\* manager's remove_status_type / add_status_type (the last one added wins).
BaseStatusTypes == (0 :> "_handle_status")
remove_status_type(types, status_type) ==
    [t \in DOMAIN types \ {status_type} |-> types[t]]
add_status_type(types, status_type, handler) ==
    [t \in DOMAIN types \cup {status_type} |->
        IF t = status_type THEN handler ELSE types[t]]

\* _subscribe_to_handelers_and_managers of the keypad: type 0 removed, type 2
\* the main load, type 1 the LEDs.
KeypadStatusRegistry_KeepsZero ==
    add_status_type(add_status_type(BaseStatusTypes, 2, "_handle_status"),
                    1, "_led_status")
KeypadStatusRegistry ==
    add_status_type(
        add_status_type(remove_status_type(BaseStatusTypes, 0), 2, "_handle_status"),
        1, "_led_status")

\* The status manager's dispatch on the discriminator of a response: a type
\* that is not registered updates nothing.
KeypadStatusDecode(grps, status_type, status) ==
    IF status_type \notin DOMAIN KeypadStatusRegistry THEN grps
    ELSE IF KeypadStatusRegistry[status_type] = "_led_status"
    THEN LedStatus(grps, status)
    ELSE HandleStatus(grps, status)

\* async_on(group) / async_off(group) up to its first await.
KeypadSend(i, c, is_on) ==
    [c EXCEPT !.pc = "awaiting", !.nsend = 1, !.ran = c.op,
              !.leds = ChangeLedStatus(c.arg, is_on)]

KeypadCall(group, is_on) ==
    /\ device = "KeypadLinc"
    /\ Len(calls) < MaxCalls
    /\ LET i == Len(calls) + 1
           c == NewCall(IF is_on THEN "on" ELSE "off", group, InFlight)
       IN  IF group \in {0, 1}
           THEN /\ calls' = Append(calls, [c EXCEPT !.pc = "awaiting", !.nsend = 1,
                                                    !.ran = c.op,
                                                    !.sent = IF is_on THEN 255 ELSE 0])
                /\ sendLog' = Append(sendLog, [call |-> i, kind |-> "cmd"])
                /\ UNCHANGED <<lockHolder, lockWaiters>>
           ELSE IF LockFree
           THEN /\ lockHolder' = i
                /\ calls' = Append(calls, KeypadSend(i, c, is_on))
                /\ sendLog' = Append(sendLog, [call |-> i, kind |-> "cmd"])
                /\ UNCHANGED lockWaiters
           ELSE /\ lockWaiters' = Append(lockWaiters, i)
                /\ calls' = Append(calls, [c EXCEPT !.pc = "lockwait"])
                /\ UNCHANGED <<lockHolder, sendLog>>
    /\ UNCHANGED <<device, propVars, groups, nonToggleMask, thermoVars, wakeVars>>

\* The lock is handed to the first waiter, which goes on to its send.
LockGranted ==
    /\ device = "KeypadLinc"
    /\ lockHolder = 0
    /\ lockWaiters # <<>>
    /\ LET i == Head(lockWaiters)
       IN  /\ lockHolder' = i
           /\ lockWaiters' = Tail(lockWaiters)
           /\ calls' = [calls EXCEPT ![i] = KeypadSend(i, calls[i], calls[i].op = "on")]
           /\ sendLog' = Append(sendLog, [call |-> i, kind |-> "cmd"])
    /\ UNCHANGED <<device, propVars, groups, nonToggleMask, thermoVars, wakeVars>>

\* The holder of the lock once the exchange of async_on / async_off has
\* returned a status: the `async with` block of an LED button is left before
\* the status is looked at; the main load never took the lock.
LockAfterExchange_HeldForRefresh(main, status) ==
    IF main \/ status = "DIRECT_NAK_PRE_NAK" THEN lockHolder ELSE 0
LockAfterExchange(main, status) == IF main THEN lockHolder ELSE 0

\* The transport returns the status of the command: the rest of async_on /
\* async_off up to its next await or its return.
KeypadResponse(i, status) ==
    /\ device = "KeypadLinc"
    /\ i \in 1..Len(calls)
    /\ calls[i].pc = "awaiting"
    /\ LET c     == calls[i]
           is_on == c.op = "on"
           value == IF is_on THEN 255 ELSE 0
           event == IF is_on THEN "ON_EVENT" ELSE "OFF_EVENT"
           main  == c.arg \in {0, 1}
           acked == IF main /\ status = "SUCCESS"
                    THEN BaseOnOffAck(groups, is_on) ELSE groups
       IN  /\ lockHolder' = LockAfterExchange(main, status)
           /\ IF status \in UpdateStatuses
              THEN /\ groups' = UpdateLedsGroups(acked, c.arg, value)
                   /\ calls' = [calls EXCEPT ![i] =
                          [c EXCEPT !.pc = "done", !.result = status, !.ret = status,
                                    !.events = UpdateLedsEvents(c.arg, value, event),
                                    !.stored = IF c.arg \in DOMAIN groups
                                               THEN groups'[c.arg] ELSE NoneVal]]
                   /\ UNCHANGED sendLog
              ELSE IF status \in RefreshStatuses
              THEN /\ groups' = acked
                   /\ calls' = [calls EXCEPT ![i] =
                          [c EXCEPT !.pc = "status", !.result = status,
                                    !.nstatus = c.nstatus + 1]]
                   /\ sendLog' = Append(sendLog, [call |-> i, kind |-> "status"])
              ELSE /\ groups' = acked
                   /\ calls' = [calls EXCEPT ![i] =
                          [c EXCEPT !.pc = "done", !.result = status, !.ret = status]]
                   /\ UNCHANGED sendLog
    /\ UNCHANGED <<device, propVars, nonToggleMask, lockWaiters, thermoVars, wakeVars>>

\* The status refresh of async_on / async_off ends: a response of one of the
\* status types is decoded when the request succeeded; the call returns the
\* status of its own command.
KeypadStatusResponse(i, status, status_type, status_byte) ==
    /\ device = "KeypadLinc"
    /\ i \in 1..Len(calls)
    /\ calls[i].pc = "status"
    /\ groups' = IF status = "SUCCESS"
                 THEN KeypadStatusDecode(groups, status_type, status_byte)
                 ELSE groups
    /\ calls' = [calls EXCEPT ![i] =
           [@ EXCEPT !.pc = "done", !.ret = calls[i].result,
                     !.stype = IF status = "SUCCESS" THEN status_type ELSE NoneVal,
                     !.raw = IF status = "SUCCESS" THEN status_byte ELSE NoneVal]]
    /\ UNCHANGED <<device, propVars, keypadVars, thermoVars, wakeVars, sendLog>>

\* A read of the device's properties commits a value of NON_TOGGLE_MASK
\* (and with it one of NON_TOGGLE_ON_OFF_MASK) and clears what was pending.
NonToggleMaskLoaded(value) ==
    /\ device = "KeypadLinc"
    /\ value # NoneVal
    /\ nonToggleMask # value
    /\ nonToggleMask' = value
    /\ toggleNew' = NoneVal
    /\ onOffMask' = [value |-> 0, new_value |-> NoneVal]
    /\ UNCHANGED <<device, onMask, offMask, lastOp, nops, calls, groups, lockHolder,
                   lockWaiters, thermoVars, wakeVars, sendLog>>

NextKeypad ==
    \/ \E value \in NonToggleMasks : NonToggleMaskLoaded(value)
    \/ \E group \in CallGroups, is_on \in BOOLEAN : KeypadCall(group, is_on)
    \/ LockGranted
    \/ \E i \in 1..MaxCalls, status \in ResponseStatuses : KeypadResponse(i, status)
    \/ \E i \in 1..MaxCalls, status \in ResponseStatuses,
          status_type \in StatusTypes, status_byte \in StatusBytes :
            KeypadStatusResponse(i, status, status_type, status_byte)

(***************************************************************************)
(* Configuration properties of the keypad: radio buttons and toggle modes  *)
(***************************************************************************)
\* A property as it is after registration: nothing committed, nothing pending.
NewProperty == [value |-> NoneVal, new_value |-> NoneVal]

\* is_loaded, is_dirty, set_value (a committed value replaces what was
\* pending) and the new_value setter (stages a write) of a property.
IsLoaded(prop) == prop.value # NoneVal
IsDirty(prop) == prop.new_value # NoneVal /\ prop.new_value # prop.value
SetValue(prop, value) == [value |-> value, new_value |-> NoneVal]
SetNewValue(prop, value) == [prop EXCEPT !.new_value = value]

\* The value a flush would leave committed: pending if dirty, else committed.
Effective(prop) == IF IsDirty(prop) THEN prop.new_value ELSE prop.value

\* utils.set_bit(value, bit, is_on).
set_bit(value, bit, is_on) ==
    IF is_on
    THEN (IF bit_is_set(value, bit) THEN value ELSE value + 2 ^ bit)
    ELSE (IF bit_is_set(value, bit) THEN value - 2 ^ bit ELSE value)

\* The byte whose set bits are the members of bits.
BitsToInt(bits) ==
    LET b(n) == IF n \in bits THEN 2 ^ n ELSE 0
    IN  b(0) + b(1) + b(2) + b(3) + b(4) + b(5) + b(6) + b(7)

Range(seq) == {seq[k] : k \in 1..Len(seq)}

\* No configuration call made yet.
NoOp == [op |-> "", buttons |-> <<>>, button |-> 0, mode |-> 0, raised |-> "",
         degrees |-> 0]

\* Arguments callers pass to set_radio_buttons and clear_radio_buttons: too
\* few buttons, pairs that overlap, the main button, and a button the device
\* does not have, first and second.
RadioInputs == {<<3>>, <<3, 4>>, <<3, 5>>, <<1, 3>>, <<3, 2>>, <<2, 3>>}
ClearInputs == {<<3>>, <<3, 4>>}

\* Arguments callers pass to set_toggle_mode; ToggleMode is 0, 1, 2.
ToggleButtons == {2, 3, 4}
ToggleModes == {0, 1, 2, 3}
TOGGLE == 0
ON_ONLY == 1
OFF_ONLY == 2

\* Mask pairs (on-mask, off-mask) a read of a button's properties can commit,
\* and the buttons read.
ReadButtons == {1, 3}
ReadMasks == {<<4, 4>>, <<16, 16>>, <<24, 8>>}
ReadToggleMasks == {<<4, 4>>, <<12, 4>>}

\* set_radio_buttons: the bits of the new mask of `button`.
RadioBits_OwnBitSet(value, buttons, button) ==
    {bit \in 0..7 :
        IF bit + 1 \in Range(buttons) THEN TRUE ELSE bit_is_set(value, bit)}
RadioBits(value, buttons, button) ==
    {bit \in 0..7 :
        IF bit + 1 \in Range(buttons)
        THEN bit # button - 1
        ELSE bit_is_set(value, bit)}

\* set_radio_buttons: the loop over buttons from position k on; it stops at
\* the first button that is not in the button list.
RECURSIVE RadioLoop(_, _, _, _)
RadioLoop(on, off, buttons, k) ==
    IF k > Len(buttons)
    THEN [on |-> on, off |-> off, raised |-> ""]
    ELSE LET button == buttons[k]
         IN  IF button \notin Buttons
             THEN [on |-> on, off |-> off, raised |-> "ValueError"]
             ELSE LET unloaded == ~IsLoaded(on[button]) \/ ~IsLoaded(off[button])
                      on_mask  == IF unloaded THEN SetValue(on[button], 0) ELSE on[button]
                      off_mask == IF unloaded THEN SetValue(off[button], 0) ELSE off[button]
                      on_new   == BitsToInt(RadioBits(on_mask.value, buttons, button))
                      off_new  == BitsToInt(RadioBits(off_mask.value, buttons, button))
                  IN  RadioLoop([on EXCEPT ![button] = SetNewValue(on_mask, on_new)],
                                [off EXCEPT ![button] = SetNewValue(off_mask, off_new)],
                                buttons, k + 1)

\* set_radio_buttons(buttons).
SetRadioButtons(buttons) ==
    /\ device = "KeypadLinc"
    /\ nops < MaxOps
    /\ nops' = nops + 1
    /\ IF Len(buttons) < 2
       THEN /\ lastOp' = [NoOp EXCEPT !.op = "set_radio_buttons", !.buttons = buttons,
                                      !.raised = "IndexError"]
            /\ UNCHANGED <<onMask, offMask>>
       ELSE LET r == RadioLoop(onMask, offMask, buttons, 1)
            IN  /\ onMask' = r.on
                /\ offMask' = r.off
                /\ lastOp' = [NoOp EXCEPT !.op = "set_radio_buttons",
                                          !.buttons = buttons, !.raised = r.raised]
    /\ UNCHANGED <<device, calls, groups, nonToggleMask, lockHolder, lockWaiters,
                   thermoVars, wakeVars, sendLog, toggleNew, onOffMask>>

\* clear_radio_buttons: the buttons whose masks are searched for a link.
OtherButtons(buttons) ==
    {button \in Buttons : button \notin Range(buttons) /\ button # 1}

\* clear_radio_buttons: the bit of a mask as the search reads it.
MaskBit(prop, bit) ==
    IF IsDirty(prop) THEN bit_is_set(prop.new_value, bit) ELSE bit_is_set(prop.value, bit)

\* clear_radio_buttons: the last loop clears the bit of each button in turn.
RECURSIVE ClearBits(_, _, _)
ClearBits(prop, buttons, k) ==
    IF k > Len(buttons)
    THEN prop
    ELSE LET from == IF IsDirty(prop) THEN prop.new_value ELSE prop.value
         IN  ClearBits(SetNewValue(prop, set_bit(from, buttons[k] - 1, FALSE)),
                       buttons, k + 1)

\* clear_radio_buttons(buttons).
ClearRadioButtons(buttons) ==
    /\ device = "KeypadLinc"
    /\ nops < MaxOps
    /\ nops' = nops + 1
    /\ LET other == OtherButtons(buttons)
           unloaded(b) == ~IsLoaded(onMask[b]) \/ ~IsLoaded(offMask[b])
           on1  == [b \in Buttons |-> IF b \in other /\ unloaded(b)
                                      THEN SetValue(onMask[b], 0) ELSE onMask[b]]
           off1 == [b \in Buttons |-> IF b \in other /\ unloaded(b)
                                      THEN SetValue(offMask[b], 0) ELSE offMask[b]]
           addl == {b \in other : \E button \in Range(buttons) :
                       MaskBit(on1[b], button - 1) \/ MaskBit(off1[b], button - 1)}
       IN  /\ onMask' = [b \in Buttons |->
                  IF b \in Range(buttons) THEN SetNewValue(on1[b], 0)
                  ELSE IF b \in addl THEN ClearBits(on1[b], buttons, 1)
                  ELSE on1[b]]
           /\ offMask' = [b \in Buttons |->
                  IF b \in Range(buttons) THEN SetNewValue(off1[b], 0)
                  ELSE IF b \in addl THEN ClearBits(off1[b], buttons, 1)
                  ELSE off1[b]]
    /\ lastOp' = [NoOp EXCEPT !.op = "clear_radio_buttons", !.buttons = buttons]
    /\ UNCHANGED <<device, calls, groups, nonToggleMask, lockHolder, lockWaiters,
                   thermoVars, wakeVars, sendLog, toggleNew, onOffMask>>

\* set_toggle_mode: the value the new bit is set in.
ToggleTest(value, new_value) == IF new_value = NoneVal THEN value ELSE new_value

\* set_toggle_mode(button, toggle_mode).
SetToggleMode(button, toggle_mode) ==
    /\ device = "KeypadLinc"
    /\ nops < MaxOps
    /\ nops' = nops + 1
    /\ IF button \notin Buttons \/ toggle_mode \notin {TOGGLE, ON_ONLY, OFF_ONLY}
       THEN /\ lastOp' = [NoOp EXCEPT !.op = "set_toggle_mode", !.button = button,
                                      !.mode = toggle_mode, !.raised = "ValueError"]
            /\ UNCHANGED <<nonToggleMask, toggleNew, onOffMask>>
       ELSE LET unloaded == nonToggleMask = NoneVal \/ ~IsLoaded(onOffMask)
                toggle_value == IF unloaded THEN 0 ELSE nonToggleMask
                toggle_new   == IF unloaded THEN NoneVal ELSE toggleNew
                on_off       == IF unloaded THEN SetValue(onOffMask, 0) ELSE onOffMask
                toggle_mask_test == ToggleTest(toggle_value, toggle_new)
                on_off_mask_test == ToggleTest(on_off.value, on_off.new_value)
            IN  /\ nonToggleMask' = toggle_value
                /\ toggleNew' = set_bit(toggle_mask_test, button - 1,
                                        toggle_mode # TOGGLE)
                /\ onOffMask' = SetNewValue(on_off,
                                    set_bit(on_off_mask_test, button - 1,
                                            toggle_mode = ON_ONLY))
                /\ lastOp' = [NoOp EXCEPT !.op = "set_toggle_mode", !.button = button,
                                          !.mode = toggle_mode]
    /\ UNCHANGED <<device, calls, groups, lockHolder, lockWaiters, thermoVars,
                   wakeVars, sendLog, onMask, offMask>>

\* A flush of the dirty properties that the device acknowledges: each dirty
\* property commits its pending value.
Committed(prop) == IF IsDirty(prop) THEN SetValue(prop, prop.new_value) ELSE prop

CommitProperties ==
    /\ device = "KeypadLinc"
    /\ nops < MaxOps
    /\ nops' = nops + 1
    /\ onMask' = [b \in Buttons |-> Committed(onMask[b])]
    /\ offMask' = [b \in Buttons |-> Committed(offMask[b])]
    /\ onOffMask' = Committed(onOffMask)
    /\ LET toggle == Committed([value |-> nonToggleMask, new_value |-> toggleNew])
       IN  /\ nonToggleMask' = toggle.value
           /\ toggleNew' = toggle.new_value
    /\ lastOp' = [NoOp EXCEPT !.op = "commit"]
    /\ UNCHANGED <<device, calls, groups, lockHolder, lockWaiters, thermoVars,
                   wakeVars, sendLog>>

\* A read of the properties of one button commits its on-mask and off-mask.
MasksRead(button, masks) ==
    /\ device = "KeypadLinc"
    /\ nops < MaxOps
    /\ nops' = nops + 1
    /\ onMask' = [onMask EXCEPT ![button] = SetValue(@, masks[1])]
    /\ offMask' = [offMask EXCEPT ![button] = SetValue(@, masks[2])]
    /\ lastOp' = [NoOp EXCEPT !.op = "read", !.button = button]
    /\ UNCHANGED <<device, calls, groups, nonToggleMask, lockHolder, lockWaiters,
                   thermoVars, wakeVars, sendLog, toggleNew, onOffMask>>

\* A read of the device's properties commits NON_TOGGLE_MASK and
\* NON_TOGGLE_ON_OFF_MASK.
ToggleMasksRead(masks) ==
    /\ device = "KeypadLinc"
    /\ nops < MaxOps
    /\ nops' = nops + 1
    /\ nonToggleMask' = masks[1]
    /\ toggleNew' = NoneVal
    /\ onOffMask' = SetValue(onOffMask, masks[2])
    /\ lastOp' = [NoOp EXCEPT !.op = "read"]
    /\ UNCHANGED <<device, calls, groups, lockHolder, lockWaiters, thermoVars,
                   wakeVars, sendLog, onMask, offMask>>

\* A read of one configuration byte commits the one mask stored in it: the
\* on-mask and the off-mask of a button, NON_TOGGLE_MASK and
\* NON_TOGGLE_ON_OFF_MASK each have a byte of their own.
ReadBytes == {12}
MaskNames == {"on_mask", "off_mask", "non_toggle_mask", "non_toggle_on_off_mask"}

ByteRead(name, button, value) ==
    /\ device = "KeypadLinc"
    /\ nops < MaxOps
    /\ nops' = nops + 1
    /\ onMask' = IF name = "on_mask"
                 THEN [onMask EXCEPT ![button] = SetValue(@, value)] ELSE onMask
    /\ offMask' = IF name = "off_mask"
                  THEN [offMask EXCEPT ![button] = SetValue(@, value)] ELSE offMask
    /\ nonToggleMask' = IF name = "non_toggle_mask" THEN value ELSE nonToggleMask
    /\ toggleNew' = IF name = "non_toggle_mask" THEN NoneVal ELSE toggleNew
    /\ onOffMask' = IF name = "non_toggle_on_off_mask"
                    THEN SetValue(onOffMask, value) ELSE onOffMask
    /\ lastOp' = [NoOp EXCEPT !.op = "read", !.button = button]
    /\ UNCHANGED <<device, calls, groups, lockHolder, lockWaiters, thermoVars,
                   wakeVars, sendLog>>

\* _led_follow_check(group, on_level): the group values after it.
LedFollowCheck(grps, group, on_level) ==
    [button \in DOMAIN grps |->
        IF button = group THEN grps[button]
        ELSE IF ~IsLoaded(onMask[button]) \/ ~IsLoaded(offMask[button])
        THEN grps[button]
        ELSE IF bit_is_set(onMask[button].value, group)
        THEN (IF bit_is_set(offMask[button].value, group) THEN 0 ELSE on_level)
        ELSE grps[button]]

\* The on-level manager of a button reports a level: the group of the button
\* takes it and _led_follow_check runs.
OnLevelReported(group, on_level) ==
    /\ device = "KeypadLinc"
    /\ nops < MaxOps
    /\ nops' = nops + 1
    /\ groups' = LedFollowCheck([groups EXCEPT ![group] = OnOffSetValue(on_level)],
                                group, on_level)
    /\ lastOp' = [NoOp EXCEPT !.op = "on_level", !.button = group, !.mode = on_level]
    /\ UNCHANGED <<device, calls, nonToggleMask, lockHolder, lockWaiters, thermoVars,
                   wakeVars, sendLog, onMask, offMask, toggleNew, onOffMask>>

NextProperties ==
    \/ \E buttons \in RadioInputs : SetRadioButtons(buttons)
    \/ \E buttons \in ClearInputs : ClearRadioButtons(buttons)
    \/ \E button \in ToggleButtons, toggle_mode \in ToggleModes :
          SetToggleMode(button, toggle_mode)
    \/ CommitProperties
    \/ \E button \in ReadButtons, masks \in ReadMasks : MasksRead(button, masks)
    \/ \E masks \in ReadToggleMasks : ToggleMasksRead(masks)
    \/ \E name \in MaskNames, value \in ReadBytes : ByteRead(name, 3, value)
    \/ \E group \in {3, 4}, on_level \in {0, 255} : OnLevelReported(group, on_level)

(***************************************************************************)
(* SwitchedLightingControl_OnOffOutlet                                     *)
(***************************************************************************)
TOP_GROUP == 1
BOTTOM_GROUP == 2

\* Status bytes the outlet can answer with: bit 0 the top, bit 1 the bottom.
OutletStatusBytes == {0, 1, 2, 3}

\* _subscribe_to_handelers_and_managers of the outlet: type 0 removed, type 1
\* its own _handle_status.
OutletStatusRegistry ==
    add_status_type(remove_status_type(BaseStatusTypes, 0), 1, "_handle_status")

\* _handle_status(db_version, status) of the outlet.
OutletHandleStatus(grps, status) ==
    [grps EXCEPT ![TOP_GROUP] = IF bit_is_set(status, 0) THEN 1 ELSE 0,
                 ![BOTTOM_GROUP] = IF bit_is_set(status, 1) THEN 1 ELSE 0]

OutletStatusDecode(grps, status_type, status) ==
    IF status_type \notin DOMAIN OutletStatusRegistry THEN grps
    ELSE OutletHandleStatus(grps, status)

\* async_status(): the status manager sends its request.
OutletStatusCall ==
    /\ device = "OnOffOutlet"
    /\ Len(calls) < MaxCalls
    /\ calls' = Append(calls, [NewCall("status", 0, InFlight) EXCEPT
                                  !.pc = "awaiting", !.ran = "status", !.nstatus = 1])
    /\ sendLog' = Append(sendLog, [call |-> Len(calls) + 1, kind |-> "status"])
    /\ UNCHANGED <<device, propVars, groups, keypadVars, thermoVars, wakeVars>>

\* The answer to the status request: a response is decoded when the request
\* succeeded.
OutletStatusResponse(i, status, status_type, status_byte) ==
    /\ device = "OnOffOutlet"
    /\ i \in 1..Len(calls)
    /\ calls[i].pc = "awaiting"
    /\ groups' = IF status = "SUCCESS"
                 THEN OutletStatusDecode(groups, status_type, status_byte)
                 ELSE groups
    /\ calls' = [calls EXCEPT ![i] =
           [@ EXCEPT !.pc = "done", !.result = status, !.ret = status,
                     !.stype = IF status = "SUCCESS" THEN status_type ELSE NoneVal]]
    /\ UNCHANGED <<device, propVars, keypadVars, thermoVars, wakeVars, sendLog>>

NextOutlet ==
    \/ OutletStatusCall
    \/ \E i \in 1..MaxCalls, status \in ResponseStatuses,
          status_type \in StatusTypes, status_byte \in OutletStatusBytes :
            OutletStatusResponse(i, status, status_type, status_byte)

(***************************************************************************)
(* ClimateControl_Thermostat                                               *)
(***************************************************************************)
GRP_COOL_ON == 1
GRP_HEAT_ON == 2
GRP_HUMID_HI_ON == 3
GRP_HUMID_LO_ON == 4
GRP_TEMP == 10
GRP_HUMID == 11
GRP_SYS_MODE == 12
GRP_FAN_MODE == 13
GRP_COOL_SP == 14
GRP_HEAT_SP == 15
GRP_HUMID_HI_SP == 16
GRP_HUMID_LO_SP == 17

\* ThermostatMode members used by _mode_set, and one system mode.
MODE_HEAT == 1
MODE_FAN_AUTO == 4
MODE_FAN_ALWAYS_ON == 8

\* _register_groups: the groups of a thermostat and their defaults.
ThermostatGroups ==
    (GRP_COOL_ON :> NoneVal) @@ (GRP_HEAT_ON :> NoneVal) @@
    (GRP_HUMID_HI_ON :> NoneVal) @@ (GRP_HUMID_LO_ON :> NoneVal) @@
    (GRP_TEMP :> 0) @@ (GRP_HUMID :> 0) @@ (GRP_SYS_MODE :> 0) @@
    (GRP_FAN_MODE :> 4) @@ (GRP_COOL_SP :> 65) @@ (GRP_HEAT_SP :> 95) @@
    (GRP_HUMID_HI_SP :> 0) @@ (GRP_HUMID_LO_SP :> 0)

\* Arguments callers pass: below, at the edges of, and above the ranges.
SetPointInputs == {0 - 3, 1, 127, 150}
HumidityInputs == {0 - 3, 1, 99, 120}
ModeInputs == {MODE_HEAT, MODE_FAN_AUTO, MODE_FAN_ALWAYS_ON}

\* The set operations of the thermostat that take a value, and the rest.
SetOps == {"cool", "heat", "hum_hi", "hum_lo", "mode"}
PlainOps == {"master", "notify", "daytime"}

OpInputs(op) ==
    IF op \in {"cool", "heat"} THEN SetPointInputs
    ELSE IF op \in {"hum_hi", "hum_lo"} THEN HumidityInputs
    ELSE IF op = "mode" THEN ModeInputs
    ELSE {0}

PyMin(a, b) == IF a < b THEN a ELSE b
PyMax(a, b) == IF a > b THEN a ELSE b

\* async_set_cool_set_point / async_set_heat_set_point: the clamp.
ClampSetPoint_NoUpper(temperature) == PyMax(1, temperature)
ClampSetPoint(temperature) == PyMax(1, PyMin(temperature, 127))

\* async_set_humidity_high_set_point / async_set_humidity_low_set_point.
ClampHumidityHigh_Unclamped(humidity) == humidity
ClampHumidityHigh(humidity) == PyMin(humidity, 99)
ClampHumidityLow(humidity) == PyMax(humidity, 1)

\* The value an operation hands to its command handler.
SentValue(op, arg) ==
    IF op \in {"cool", "heat"} THEN ClampSetPoint(arg)
    ELSE IF op = "hum_hi" THEN ClampHumidityHigh(arg)
    ELSE IF op = "hum_lo" THEN ClampHumidityLow(arg)
    ELSE arg

\* A command handler publishes the acknowledged values to its subscribers
\* when the exchange succeeded.
HandlerPublishes(status) == status = "SUCCESS"

\* _cool_set_point_set / _heat_set_point_set (SetPoint.set_value stores).
CoolSetPointSet_Heat(grps, degrees) == [grps EXCEPT ![GRP_HEAT_SP] = degrees]
CoolSetPointSet(grps, degrees) == [grps EXCEPT ![GRP_COOL_SP] = degrees]
HeatSetPointSet(grps, degrees) == [grps EXCEPT ![GRP_HEAT_SP] = degrees]

\* _mode_set(thermostat_mode).
ModeSet_AlwaysSystem(grps, thermostat_mode) ==
    [grps EXCEPT ![GRP_SYS_MODE] = thermostat_mode]
ModeSet(grps, thermostat_mode) ==
    IF thermostat_mode \in {MODE_FAN_ALWAYS_ON, MODE_FAN_AUTO}
    THEN [grps EXCEPT ![GRP_FAN_MODE] = thermostat_mode]
    ELSE [grps EXCEPT ![GRP_SYS_MODE] = thermostat_mode]

\* async_set_humidity_high_set_point / _low_: the update after the await.
HumidityStored_Always(grps, group, cmd_status, humidity) ==
    [grps EXCEPT ![group] = humidity]
HumidityStored(grps, group, cmd_status, humidity) ==
    IF cmd_status = "SUCCESS" THEN [grps EXCEPT ![group] = humidity] ELSE grps

\* The group values after the exchange of a set operation has ended.
ThermoAck(grps, op, sent, status) ==
    IF op = "cool"
    THEN (IF HandlerPublishes(status) THEN CoolSetPointSet(grps, sent) ELSE grps)
    ELSE IF op = "heat"
    THEN (IF HandlerPublishes(status) THEN HeatSetPointSet(grps, sent) ELSE grps)
    ELSE IF op = "mode"
    THEN (IF HandlerPublishes(status) THEN ModeSet(grps, sent) ELSE grps)
    ELSE IF op = "hum_hi" THEN HumidityStored(grps, GRP_HUMID_HI_SP, status, sent)
    ELSE IF op = "hum_lo" THEN HumidityStored(grps, GRP_HUMID_LO_SP, status, sent)
    ELSE grps

\* Statuses after which a thermostat set operation refreshes the status:
\* none, the status is handed back to the caller as it is.
ThermoRefreshStatuses == {}

\* utils.to_fahrenheit(celsius): round(celsius * 1.8) + 32.
to_fahrenheit(degrees) == ((18 * degrees + 5) \div 10) + 32

\* _status_received: the temperature stored for a raw temperature.
DecodeTemperature_Always(temperature) == to_fahrenheit(temperature)
DecodeTemperature(temperature) ==
    IF celsius # "True" THEN to_fahrenheit(temperature) ELSE temperature

\* Full status frames and set point frames the device can answer with.
StatusFrames ==
    {[system_mode |-> 1, fan_mode |-> 4, cool_set_point |-> 75, humidity |-> 40,
      temperature |-> 200, cooling |-> 0, heating |-> 1, heat_set_point |-> 68],
     [system_mode |-> 2, fan_mode |-> 8, cool_set_point |-> 80, humidity |-> 55,
      temperature |-> 21, cooling |-> 1, heating |-> 0, heat_set_point |-> 60]}
SetPointFrames ==
    {[humidity_high |-> 60, humidity_low |-> 20,
      cool_set_point |-> 77, heat_set_point |-> 66]}

\* _status_received(...).
StatusReceived_SetPointsSwapped(grps, f) ==
    [grps EXCEPT ![GRP_COOL_ON] = OnOffSetValue(f.cooling),
                 ![GRP_HEAT_ON] = OnOffSetValue(f.heating),
                 ![GRP_SYS_MODE] = f.system_mode,
                 ![GRP_FAN_MODE] = f.fan_mode,
                 ![GRP_COOL_SP] = f.heat_set_point,
                 ![GRP_HEAT_SP] = f.cool_set_point,
                 ![GRP_TEMP] = DecodeTemperature(f.temperature),
                 ![GRP_HUMID] = f.humidity]
StatusReceived(grps, f) ==
    [grps EXCEPT ![GRP_COOL_ON] = OnOffSetValue(f.cooling),
                 ![GRP_HEAT_ON] = OnOffSetValue(f.heating),
                 ![GRP_SYS_MODE] = f.system_mode,
                 ![GRP_FAN_MODE] = f.fan_mode,
                 ![GRP_COOL_SP] = f.cool_set_point,
                 ![GRP_HEAT_SP] = f.heat_set_point,
                 ![GRP_TEMP] = DecodeTemperature(f.temperature),
                 ![GRP_HUMID] = f.humidity]

\* _set_point_received(...).
SetPointReceived(grps, f) ==
    [grps EXCEPT ![GRP_COOL_SP] = f.cool_set_point,
                 ![GRP_HEAT_SP] = f.heat_set_point,
                 ![GRP_HUMID_HI_SP] = f.humidity_high,
                 ![GRP_HUMID_LO_SP] = f.humidity_low]

\* A set operation of ClimateControl_Thermostat up to its await.
ThermoStart(c, op) ==
    [c EXCEPT !.pc = "awaiting", !.ran = op, !.nsend = c.nsend + 1,
              !.sent = SentValue(op, c.arg)]

ThermoCall(op, arg) ==
    /\ device = "Thermostat"
    /\ Len(calls) < MaxCalls
    /\ arg \in OpInputs(op)
    /\ calls' = Append(calls, ThermoStart(NewCall(op, arg, InFlight), op))
    /\ sendLog' = Append(sendLog, [call |-> Len(calls) + 1, kind |-> "cmd"])
    /\ UNCHANGED <<device, propVars, groups, keypadVars, thermoVars, wakeVars>>

\* async_status(): the status manager sends its request.
ThermoStatusCall ==
    /\ device = "Thermostat"
    /\ Len(calls) < MaxCalls
    /\ calls' = Append(calls, [NewCall("status", 0, InFlight) EXCEPT
                                  !.pc = "awaiting", !.ran = "status", !.nstatus = 1])
    /\ sendLog' = Append(sendLog, [call |-> Len(calls) + 1, kind |-> "status"])
    /\ UNCHANGED <<device, propVars, groups, keypadVars, thermoVars, wakeVars>>

\* The transport returns the status of a set command: the rest of the
\* operation. On a battery device the gate is free for the next call.
ThermoResponse(i, status) ==
    /\ device \in {"Thermostat", "WirelessThermostat"}
    /\ i \in 1..Len(calls)
    /\ calls[i].pc = "awaiting"
    /\ calls[i].ran \in SetOps \cup PlainOps
    /\ LET c == calls[i]
       IN  /\ groups' = ThermoAck(groups, c.ran, c.sent, status)
           /\ IF status \in ThermoRefreshStatuses
              THEN /\ calls' = [calls EXCEPT ![i] =
                          [c EXCEPT !.pc = "status", !.result = status,
                                    !.nstatus = c.nstatus + 1]]
                   /\ sendLog' = Append(sendLog, [call |-> i, kind |-> "status"])
                   /\ UNCHANGED running
              ELSE /\ calls' = [calls EXCEPT ![i] =
                          [c EXCEPT !.pc = "done", !.result = status,
                                    !.ret = IF c.ret = "PENDING" THEN status ELSE c.ret]]
                   /\ running' = IF running = i THEN 0 ELSE running
                   /\ UNCHANGED sendLog
    /\ UNCHANGED <<device, propVars, keypadVars, thermoVars, awake, wakeQueue, aldb>>

\* The status manager receives the answer to a status request: a full status
\* frame or a set point frame is decoded when the request succeeded.
ThermoStatusResponse(i, status, f) ==
    /\ device = "Thermostat"
    /\ i \in 1..Len(calls)
    /\ calls[i].pc \in {"awaiting", "status"}
    /\ calls[i].ran = "status" \/ calls[i].pc = "status"
    /\ groups' = IF status # "SUCCESS" THEN groups
                 ELSE IF f \in StatusFrames THEN StatusReceived(groups, f)
                 ELSE SetPointReceived(groups, f)
    /\ calls' = [calls EXCEPT ![i] =
           [@ EXCEPT !.pc = "done",
                     !.result = IF @ = "NONE" THEN status ELSE @,
                     !.ret = IF calls[i].result = "NONE" THEN status
                             ELSE calls[i].result,
                     !.raw = IF status = "SUCCESS" /\ f \in StatusFrames
                             THEN f.temperature ELSE NoneVal,
                     !.frame = IF status = "SUCCESS" THEN f ELSE <<>>]]
    /\ UNCHANGED <<device, propVars, keypadVars, thermoVars, wakeVars, sendLog>>

\* The temperature the temperature handler notifies (one of the two a
\* status frame carries).
TemperatureInputs == {21}

\* _temp_received(degrees), the subscriber of the temperature handler.
TempReceived(degrees) ==
    /\ device = "Thermostat"
    /\ groups' = [groups EXCEPT ![GRP_TEMP] = degrees]
    /\ lastOp' = [NoOp EXCEPT !.op = "_temp_received", !.degrees = degrees]
    /\ UNCHANGED <<device, calls, keypadVars, thermoVars, wakeVars, sendLog,
                   onMask, offMask, toggleNew, onOffMask, nops>>

\* _temp_format_first_set: the subscriber of CELSIUS it leaves registered.
TempFormatFirstSet_Stays == "_temp_format_first_set"
TempFormatFirstSet == "_async_temp_format_changed"

\* The CELSIUS configuration property notifies its subscriber of a value:
\* _temp_format_first_set the first time, _async_temp_format_changed (a
\* status request) from then on.
CelsiusNotify(value) ==
    /\ device = "Thermostat"
    /\ celsius' = value
    /\ IF celsiusSub = "_temp_format_first_set"
       THEN /\ celsiusSub' = TempFormatFirstSet
            /\ UNCHANGED <<calls, sendLog>>
       ELSE /\ Len(calls) < MaxCalls
            /\ calls' = Append(calls, [NewCall("status", 1, InFlight) EXCEPT
                                  !.pc = "awaiting", !.ran = "status", !.nstatus = 1])
            /\ sendLog' = Append(sendLog, [call |-> Len(calls) + 1, kind |-> "status"])
            /\ UNCHANGED celsiusSub
    /\ UNCHANGED <<device, propVars, groups, keypadVars, wakeVars>>

NextThermostat ==
    \/ \E op \in SetOps \cup PlainOps : \E arg \in OpInputs(op) : ThermoCall(op, arg)
    \/ ThermoStatusCall
    \/ \E i \in 1..MaxCalls, status \in ResponseStatuses : ThermoResponse(i, status)
    \/ \E i \in 1..MaxCalls, status \in ResponseStatuses,
          f \in StatusFrames \cup SetPointFrames : ThermoStatusResponse(i, status, f)
    \/ \E value \in {"False", "True"} : CelsiusNotify(value)
    \/ \E degrees \in TemperatureInputs : TempReceived(degrees)


(***************************************************************************)
(* ClimateControl_WirelessThermostat                                       *)
(***************************************************************************)
WirelessOps == SetOps \cup PlainOps \cup {"links"}

\* The public operations the wireless thermostat hands to _run_on_wake.
RunsOnWake_NotDayTime(op) == op \in WirelessOps \ {"daytime"}
RunsOnWake(op) == op \in WirelessOps

\* The method each operation hands to _run_on_wake: the thermostat's method
\* of the same name, and the on-wake link routine.
SuperMethod_HeatAsCool(op) ==
    IF op = "links" THEN "links_on_wake" ELSE IF op = "heat" THEN "cool" ELSE op
SuperMethod(op) == IF op = "links" THEN "links_on_wake" ELSE op

\* What the caller of a deferred operation gets back at once: the value of
\* _run_on_wake(...), and nothing from async_add_default_links.
WirelessReturn(op) == IF op = "links" THEN "None" ELSE "RUN_ON_WAKE_VALUE"

\* utils.multiple_status(a, b).
multiple_status(a, b) ==
    IF a = "SUCCESS" /\ b = "SUCCESS" THEN "SUCCESS"
    ELSE IF a # "SUCCESS" THEN a ELSE b

\* A public operation of the wireless thermostat.
WirelessCall(op, arg) ==
    /\ device = "WirelessThermostat"
    /\ Len(calls) < MaxCalls
    /\ arg \in OpInputs(op)
    /\ LET i == Len(calls) + 1
           c == NewCall(op, arg, InFlight)
       IN  IF RunsOnWake(op)
           THEN /\ calls' = Append(calls, [c EXCEPT !.pc = "queued",
                                                    !.ret = WirelessReturn(op)])
                /\ wakeQueue' = Append(wakeQueue,
                       [call |-> i, method |-> SuperMethod(op), arg |-> arg])
                /\ UNCHANGED sendLog
           ELSE /\ calls' = Append(calls, ThermoStart(c, op))
                /\ sendLog' = Append(sendLog, [call |-> i, kind |-> "cmd"])
                /\ UNCHANGED wakeQueue
    /\ UNCHANGED <<device, propVars, groups, keypadVars, thermoVars, awake, running, aldb>>

\* The device signals that it is awake and listening; it falls asleep again
\* when the gate is idle.
Wake ==
    /\ device = "WirelessThermostat"
    /\ ~awake
    /\ awake' = TRUE
    /\ UNCHANGED <<device, propVars, calls, groups, keypadVars, thermoVars, wakeQueue,
                   running, aldb, sendLog>>

Sleep ==
    /\ device = "WirelessThermostat"
    /\ awake
    /\ running = 0
    /\ awake' = FALSE
    /\ UNCHANGED <<device, propVars, calls, groups, keypadVars, thermoVars, wakeQueue,
                   running, aldb, sendLog>>

\* The gate executes the oldest deferred call: the captured method runs up
\* to its first await. async_add_default_links_on_wake first rebinds the
\* aldb methods to their on-wake variants.
RunQueued ==
    /\ device = "WirelessThermostat"
    /\ awake
    /\ running = 0
    /\ wakeQueue # <<>>
    /\ LET e == Head(wakeQueue)
           i == e.call
       IN  /\ running' = i
           /\ wakeQueue' = Tail(wakeQueue)
           /\ IF e.method = "links_on_wake"
              THEN /\ calls' = [calls EXCEPT ![i] =
                          [@ EXCEPT !.pc = "links", !.ran = e.method,
                                    !.saved = <<aldb.write, aldb.load>>]]
                   /\ aldb' = [write |-> "async_write_on_wake",
                               load |-> "async_load_on_wake"]
                   /\ UNCHANGED sendLog
              ELSE /\ calls' = [calls EXCEPT ![i] =
                          ThermoStart([@ EXCEPT !.arg = e.arg], e.method)]
                   /\ sendLog' = Append(sendLog, [call |-> i, kind |-> "cmd"])
                   /\ UNCHANGED aldb
    /\ UNCHANGED <<device, propVars, groups, keypadVars, thermoVars, awake>>

\* async_add_default_links(self) has returned its status: the routine goes
\* on to super().async_set_notify_changes().
LinksDone(i, status) ==
    /\ device = "WirelessThermostat"
    /\ i \in 1..Len(calls)
    /\ calls[i].pc = "links"
    /\ calls' = [calls EXCEPT ![i] =
           [@ EXCEPT !.pc = "awaiting", !.result = status, !.nsend = @ + 1]]
    /\ sendLog' = Append(sendLog, [call |-> i, kind |-> "cmd"])
    /\ UNCHANGED <<device, propVars, groups, keypadVars, thermoVars, wakeVars>>

\* The finally block of async_add_default_links_on_wake: the aldb methods
\* are bound back to the saved ones.
RestoreAldb_WriteOnly(saved) == [aldb EXCEPT !.write = saved[1]]
RestoreAldb(saved) == [write |-> saved[1], load |-> saved[2]]

\* async_add_default_links(self) or super().async_set_notify_changes()
\* raises: the finally block runs and the exception leaves the routine.
LinksRaised(i) ==
    /\ device = "WirelessThermostat"
    /\ i \in 1..Len(calls)
    /\ calls[i].ran = "links_on_wake"
    /\ calls[i].pc \in {"links", "awaiting"}
    /\ aldb' = RestoreAldb(calls[i].saved)
    /\ calls' = [calls EXCEPT ![i] = [@ EXCEPT !.pc = "done", !.result = "EXCEPTION"]]
    /\ running' = IF running = i THEN 0 ELSE running
    /\ UNCHANGED <<device, propVars, groups, keypadVars, thermoVars, awake, wakeQueue, sendLog>>

\* The notify command has returned its status: the aldb methods are bound
\* back and the routine returns multiple_status.
LinksNotifyResponse(i, status) ==
    /\ device = "WirelessThermostat"
    /\ i \in 1..Len(calls)
    /\ calls[i].pc = "awaiting"
    /\ calls[i].ran = "links_on_wake"
    /\ aldb' = RestoreAldb(calls[i].saved)
    /\ calls' = [calls EXCEPT ![i] =
           [@ EXCEPT !.pc = "done", !.result = multiple_status(@, status)]]
    /\ running' = IF running = i THEN 0 ELSE running
    /\ UNCHANGED <<device, propVars, groups, keypadVars, thermoVars, awake, wakeQueue, sendLog>>

\* async_add_default_links_on_wake() called directly, as the public
\* coroutine it is: it runs at once, up to its first await, whether or not
\* another execution of it is under way.
LinksOnWakeCall ==
    /\ device = "WirelessThermostat"
    /\ Len(calls) < MaxCalls
    /\ calls' = Append(calls, [NewCall("links_on_wake", 0, InFlight) EXCEPT
                                  !.pc = "links", !.ran = "links_on_wake",
                                  !.saved = <<aldb.write, aldb.load>>])
    /\ aldb' = [write |-> "async_write_on_wake", load |-> "async_load_on_wake"]
    /\ UNCHANGED <<device, propVars, groups, keypadVars, thermoVars, awake,
                   wakeQueue, running, sendLog>>

NextWireless ==
    \/ \E op \in WirelessOps : \E arg \in OpInputs(op) : WirelessCall(op, arg)
    \/ Wake
    \/ Sleep
    \/ RunQueued
    \/ \E i \in 1..MaxCalls, status \in ResponseStatuses : ThermoResponse(i, status)
    \/ \E i \in 1..MaxCalls, status \in ResponseStatuses : LinksDone(i, status)
    \/ \E i \in 1..MaxCalls, status \in ResponseStatuses : LinksNotifyResponse(i, status)
    \/ \E i \in 1..MaxCalls : LinksRaised(i)

(***************************************************************************)
(* Cancellation of a caller                                                *)
(***************************************************************************)
\* What a late response still changes: the command handler publishes an
\* acknowledgement to the subscribers the device registered on it (cool and
\* heat set point, mode; the base class's handler of the main load).
LateAck(grps, c, status) ==
    IF c.ran \in {"cool", "heat", "mode"} THEN ThermoAck(grps, c.ran, c.sent, status)
    ELSE IF c.ran \in {"on", "off"} /\ c.arg \in {0, 1} /\ status = "SUCCESS"
    THEN BaseOnOffAck(grps, c.ran = "on")
    ELSE grps

\* The caller of call i abandons its await while the exchange is in flight:
\* CancelledError is raised at the await, an `async with` block releases the
\* lock, and the rest of the coroutine never runs.
Cancel(i) ==
    /\ device \in {"Thermostat", "KeypadLinc"}
    /\ i \in 1..Len(calls)
    /\ calls[i].pc = "awaiting"
    /\ calls[i].ran \in SetOps \cup PlainOps \cup {"on", "off"}
    /\ calls' = [calls EXCEPT ![i] = [@ EXCEPT !.pc = "cancelled", !.ret = "CANCELLED"]]
    /\ lockHolder' = IF lockHolder = i THEN 0 ELSE lockHolder
    /\ UNCHANGED <<device, propVars, groups, nonToggleMask, lockWaiters, thermoVars,
                   wakeVars, sendLog>>

\* The response of an exchange whose caller is gone arrives at the handler.
LateResponse(i, status) ==
    /\ device \in {"Thermostat", "KeypadLinc"}
    /\ i \in 1..Len(calls)
    /\ calls[i].pc = "cancelled"
    /\ groups' = LateAck(groups, calls[i], status)
    /\ calls' = [calls EXCEPT ![i] = [@ EXCEPT !.pc = "done", !.result = status]]
    /\ UNCHANGED <<device, propVars, keypadVars, thermoVars, wakeVars, sendLog>>

\* The send of SET_LEDS raises: the exception leaves the `async with` block,
\* which releases the lock, and then async_on / async_off.
KeypadSendRaised(i) ==
    /\ device = "KeypadLinc"
    /\ i \in 1..Len(calls)
    /\ calls[i].pc = "awaiting"
    /\ calls[i].arg \notin {0, 1}
    /\ calls' = [calls EXCEPT ![i] =
           [@ EXCEPT !.pc = "done", !.result = "EXCEPTION", !.ret = "EXCEPTION"]]
    /\ lockHolder' = IF lockHolder = i THEN 0 ELSE lockHolder
    /\ UNCHANGED <<device, propVars, groups, nonToggleMask, lockWaiters, thermoVars,
                   wakeVars, sendLog>>

NextCancel ==
    \/ NextKeypad
    \/ NextThermostat
    \/ \E i \in 1..MaxCalls : Cancel(i)
    \/ \E i \in 1..MaxCalls, status \in ResponseStatuses : LateResponse(i, status)

(***************************************************************************)
(* Specifications                                                          *)
(***************************************************************************)
Devices == {"Thermostat", "WirelessThermostat", "KeypadLinc", "OnOffOutlet"}

\* The device after construction: no call made, groups at their defaults,
\* no property loaded, the lock free, the battery device asleep.
Init ==
    /\ device \in Devices
    /\ calls = <<>>
    /\ groups = IF device = "KeypadLinc"
                THEN [b \in Buttons |-> NoneVal]
                ELSE IF device = "OnOffOutlet"
                THEN [g \in {TOP_GROUP, BOTTOM_GROUP} |-> NoneVal]
                ELSE ThermostatGroups
    /\ celsius = "None"
    /\ celsiusSub = "_temp_format_first_set"
    /\ nonToggleMask = NoneVal
    /\ lockHolder = 0
    /\ lockWaiters = <<>>
    /\ awake = FALSE
    /\ wakeQueue = <<>>
    /\ running = 0
    /\ aldb = [write |-> "async_write", load |-> "async_load"]
    /\ sendLog = <<>>
    /\ onMask = [b \in Buttons |-> NewProperty]
    /\ offMask = [b \in Buttons |-> NewProperty]
    /\ toggleNew = NoneVal
    /\ onOffMask = NewProperty
    /\ lastOp = NoOp
    /\ nops = 0

InitKeypad == Init /\ device = "KeypadLinc"
InitThermostat == Init /\ device = "Thermostat"
InitWireless == Init /\ device = "WirelessThermostat"

Next == NextKeypad \/ NextOutlet \/ NextThermostat \/ NextWireless

\* Any of the devices.
Spec == Init /\ [][Next]_vars
\* One device class each.
SpecKeypad == InitKeypad /\ [][NextKeypad]_vars
SpecThermostat == InitThermostat /\ [][NextThermostat]_vars
SpecWireless == InitWireless /\ [][NextWireless]_vars
\* The configuration calls of the keypad, with reads, flushes and reports.
\* The wireless thermostat with direct calls of the on-wake link routine.
NextLinks == NextWireless \/ LinksOnWakeCall
SpecLinks == InitWireless /\ [][NextLinks]_vars

\* The calls of the keypad with callers that cancel and sends that raise,
\* every exchange returning in the end and the event loop running what is
\* ready to run.
NextLocking ==
    \/ \E group \in CallGroups, is_on \in BOOLEAN : KeypadCall(group, is_on)
    \/ LockGranted
    \/ \E i \in 1..MaxCalls, status \in ResponseStatuses : KeypadResponse(i, status)
    \/ \E i \in 1..MaxCalls, status \in ResponseStatuses,
          status_type \in StatusTypes, status_byte \in StatusBytes :
            KeypadStatusResponse(i, status, status_type, status_byte)
    \/ \E i \in 1..MaxCalls : Cancel(i)
    \/ \E i \in 1..MaxCalls, status \in ResponseStatuses : LateResponse(i, status)
    \/ \E i \in 1..MaxCalls : KeypadSendRaised(i)

ExchangeReturns(i) ==
    \/ \E status \in ResponseStatuses : KeypadResponse(i, status)
    \/ \E status \in ResponseStatuses, status_type \in StatusTypes,
          status_byte \in StatusBytes :
            KeypadStatusResponse(i, status, status_type, status_byte)
    \/ \E status \in ResponseStatuses : LateResponse(i, status)

SpecLocking ==
    /\ InitKeypad
    /\ [][NextLocking]_vars
    /\ WF_vars(LockGranted)
    /\ \A i \in 1..MaxCalls : WF_vars(ExchangeReturns(i))

SpecProperties == InitKeypad /\ [][NextProperties]_vars
\* The thermostat and the keypad with callers that may cancel.
InitCancel == Init /\ device \in {"Thermostat", "KeypadLinc"}
SpecCancel == InitCancel /\ [][NextCancel]_vars


(***************************************************************************)
(* Claims                                                                  *)
(***************************************************************************)
IsDone(i) == calls[i].pc = "done"
IsLedCall(c) == c.op \in {"on", "off"} /\ c.arg >= 2
Requested(c) == IF c.op = "on" THEN 255 ELSE 0

\* C1: async_set_cool_set_point(t) and async_set_heat_set_point(t) hand
\* max(1, min(t, 127)) to the command handler, a value in 1..127, and when
\* the exchange is acknowledged the cool (heat) set point group holds that
\* clamped value, not the caller's input.
C1_SetPointClamped ==
    [][\A i \in 1..Len(calls') :
          LET d == calls'[i]
              clamped == IF d.arg < 1 THEN 1 ELSE IF d.arg > 127 THEN 127 ELSE d.arg
              grp == IF d.op = "cool" THEN GRP_COOL_SP ELSE GRP_HEAT_SP
          IN  (d.op \in {"cool", "heat"} /\ d.nsend > 0) =>
                /\ d.sent = clamped
                /\ d.sent \in 1..127
                /\ (i <= Len(calls) /\ calls[i].pc = "awaiting" /\ d.result = "SUCCESS")
                      => groups'[grp] = clamped
      ]_vars

\* C1 witness: cool set point 150 was sent as 127, acknowledged, and the
\* cool set point group is 127.
C1_Witness ==
    \E i \in 1..Len(calls) :
        /\ calls[i].op = "cool" /\ calls[i].arg = 150 /\ calls[i].sent = 127
        /\ calls[i].result = "SUCCESS"
        /\ groups[GRP_COOL_SP] = 127

\* C2: a local set operation (humidity high / low set point, keypad LED on /
\* off) leaves every group value as it is when it is called, when it sends,
\* and when its exchange ends with a status other than SUCCESS: its group
\* changes only in the step in which the transport returned SUCCESS.
C2_NoOptimisticUpdate ==
    [][\A i \in 1..Len(calls') :
          LET d == calls'[i]
              isNew == i > Len(calls)
              before == isNew \/ (calls[i] # d /\
                                  calls[i].pc \in {"lockwait", "queued", "awaiting"})
          IN  ((d.op \in {"hum_hi", "hum_lo"} \/ IsLedCall(d))
                 /\ before /\ d.result # "SUCCESS")
                => groups' = groups
      ]_vars

\* C2 witness: a humidity high set point exchange is in flight with 99 sent
\* and the group still at its earlier value.
C2_Witness ==
    \E i \in 1..Len(calls) :
        /\ calls[i].op = "hum_hi" /\ calls[i].pc = "awaiting" /\ calls[i].sent = 99
        /\ groups[GRP_HUMID_HI_SP] # 99

\* C3: at most one SET_LEDS exchange of async_on / async_off calls on LED
\* buttons is in flight, and the call it belongs to holds the device lock;
\* every other such call that has started is still waiting for the lock and
\* has not computed its snapshot.
C3_OneLedExchange ==
    LET flying == {i \in 1..Len(calls) : IsLedCall(calls[i]) /\ calls[i].pc = "awaiting"}
    IN  /\ Cardinality(flying) <= 1
        /\ \A i \in flying : lockHolder = i
        /\ \A i \in 1..Len(calls) :
              calls[i].pc = "lockwait" => calls[i].nsend = 0 /\ calls[i].leds = {}

\* C3 witness: one LED exchange in flight while a second LED call waits.
C3_Witness ==
    \E i, j \in 1..Len(calls) :
        /\ IsLedCall(calls[i]) /\ calls[i].pc = "awaiting"
        /\ IsLedCall(calls[j]) /\ calls[j].pc = "lockwait"

\* A toggle b on button 3 that was started while the toggle a on button 5
\* was in flight, both ended with SUCCESS.
C4_Case(a, b) ==
    /\ IsLedCall(calls[a]) /\ calls[a].arg = 5
    /\ IsLedCall(calls[b]) /\ calls[b].arg = 3
    /\ a \in calls[b].during
    /\ IsDone(a) /\ calls[a].result = "SUCCESS"
    /\ IsDone(b) /\ calls[b].result = "SUCCESS"

\* No call other than a and b has written group values.
C4_NoOtherWriter(a, b) ==
    \A c \in 1..Len(calls) \ {a, b} :
        calls[c].result \in {"NONE", "FAILURE", "TIMEOUT"}

\* C4 as stated: the later payload carries the state requested for button 5
\* and for button 3, and both groups end at their requested states.
C4_RequestedStatesKept ==
    \A a, b \in 1..Len(calls) :
        (C4_Case(a, b) /\ C4_NoOtherWriter(a, b)) =>
            /\ (5 \in calls[b].leds) = (calls[a].op = "on")
            /\ (3 \in calls[b].leds) = (calls[b].op = "on")
            /\ groups[5] = Requested(calls[a])
            /\ groups[3] = Requested(calls[b])

\* C4 amended: the later payload carries for button 5 the value the earlier
\* exchange stored and for button 3 the requested state; both groups end at
\* the value their own exchange stored, which is the requested state or, for
\* a button _update_leds finds non-toggle, 0.
C4_NoStaleSnapshot ==
    \A a, b \in 1..Len(calls) :
        (C4_Case(a, b) /\ C4_NoOtherWriter(a, b)) =>
            /\ (5 \in calls[b].leds) = PyBool(calls[a].stored)
            /\ (3 \in calls[b].leds) = (calls[b].op = "on")
            /\ groups[5] = calls[a].stored
            /\ groups[3] = calls[b].stored
            /\ calls[a].stored \in {0, Requested(calls[a])}
            /\ calls[b].stored \in {0, Requested(calls[b])}

\* C4 witness: on(5) then on(3) started during it, both acknowledged, both
\* LEDs on in the later payload and in the groups.
C4_Witness ==
    \E a, b \in 1..Len(calls) :
        /\ C4_Case(a, b)
        /\ calls[a].op = "on" /\ calls[b].op = "on"
        /\ calls[b].leds = {3, 5}
        /\ groups[3] = 255 /\ groups[5] = 255

\* C5: when the exchange of a keypad LED on / off or of a thermostat
\* humidity set point operation ends with FAILURE or TIMEOUT, no group
\* changes, no event is triggered, nothing more is sent, and the operation
\* returns that status.
C5_FailureIsInert ==
    [][\A i \in 1..Len(calls) :
          LET c == calls[i]
              d == calls'[i]
          IN  ((IsLedCall(c) \/ (device = "Thermostat" /\ c.op \in {"hum_hi", "hum_lo"}))
                 /\ c.pc = "awaiting" /\ d # c
                 /\ d.result \in {"FAILURE", "TIMEOUT"})
                => /\ groups' = groups
                   /\ d.events = <<>>
                   /\ sendLog' = sendLog
                   /\ d.nsend = c.nsend /\ d.nstatus = 0
                   /\ d.pc = "done"
                   /\ d.ret = d.result
      ]_vars

\* C5 witness: an LED off on button 3 ended with TIMEOUT.
C5_Witness ==
    \E i \in 1..Len(calls) :
        /\ calls[i].op = "off" /\ calls[i].arg = 3
        /\ IsDone(i) /\ calls[i].result = "TIMEOUT" /\ calls[i].ret = "TIMEOUT"

\* C6: when keypad async_on / async_off gets DIRECT_NAK_PRE_NAK, that step
\* issues one status request and changes no group and triggers no event; the
\* call returns DIRECT_NAK_PRE_NAK, with exactly one status request made,
\* whatever the status request answered.
C6_NakRefreshesOnce ==
    [][\A i \in 1..Len(calls) :
          LET c == calls[i]
              d == calls'[i]
          IN  /\ (c.op \in {"on", "off"} /\ c.pc = "awaiting" /\ d # c
                    /\ d.result = "DIRECT_NAK_PRE_NAK")
                   => /\ d.pc = "status" /\ d.nstatus = 1 /\ d.ret = "PENDING"
                      /\ sendLog' = Append(sendLog, [call |-> i, kind |-> "status"])
                      /\ groups' = groups
                      /\ d.events = <<>>
              /\ (c.op \in {"on", "off"} /\ d.pc = "done"
                    /\ d.result = "DIRECT_NAK_PRE_NAK")
                   => /\ d.ret = "DIRECT_NAK_PRE_NAK"
                      /\ d.nstatus = 1 /\ d.nsend = 1
                      /\ d.events = <<>>
      ]_vars

\* C6 witness: an LED on returned DIRECT_NAK_PRE_NAK after its status
\* refresh decoded an LED status that turned button 3 on.
C6_Witness ==
    \E i \in 1..Len(calls) :
        /\ calls[i].op = "on" /\ IsDone(i)
        /\ calls[i].result = "DIRECT_NAK_PRE_NAK" /\ calls[i].ret = "DIRECT_NAK_PRE_NAK"
        /\ calls[i].nstatus = 1
        /\ groups[3] = 1

\* C7 as stated: a thermostat set operation that got DIRECT_NAK_PRE_NAK has
\* issued a status refresh when it returns DIRECT_NAK_PRE_NAK.
C7_ThermostatNakRefreshes ==
    \A i \in 1..Len(calls) :
        (device = "Thermostat" /\ calls[i].op \in SetOps /\ IsDone(i)
           /\ calls[i].result = "DIRECT_NAK_PRE_NAK")
          => calls[i].nstatus >= 1 /\ calls[i].ret = "DIRECT_NAK_PRE_NAK"

\* C8: a decoded full status response stores to_fahrenheit(raw) in the
\* temperature group when CELSIUS is false at the decode and the raw value
\* when CELSIUS is true, after any earlier CELSIUS changes and responses.
C8_TemperatureDecodedOnce ==
    [][\A i \in 1..Len(calls) :
          LET d == calls'[i]
          IN  (calls[i].pc = "awaiting" /\ d.pc = "done" /\ d.raw # NoneVal) =>
                /\ celsius = "False" => groups'[GRP_TEMP] = to_fahrenheit(d.raw)
                /\ celsius = "True" => groups'[GRP_TEMP] = d.raw
      ]_vars

\* C8 witness: after a CELSIUS change to true, raw 200 was stored as 200
\* by a later status response.
C8_Witness ==
    \E i \in 1..Len(calls) :
        /\ IsDone(i) /\ calls[i].raw = 200
        /\ celsius = "True" /\ celsiusSub = "_async_temp_format_changed"
        /\ groups[GRP_TEMP] = 200

\* C9: every public mutating operation of the wireless thermostat is put
\* on the run-on-wake gate with its argument, sending nothing, and a
\* transport send only happens while the device is awake.
C9_QueuedBehindWake ==
    [][/\ Len(calls') > Len(calls) =>
            LET i == Len(calls')
                d == calls'[i]
            IN  /\ d.pc = "queued" /\ d.nsend = 0
                /\ sendLog' = sendLog
                /\ wakeQueue' = Append(wakeQueue,
                       [call |-> i,
                        method |-> IF d.op = "links" THEN "links_on_wake" ELSE d.op,
                        arg |-> d.arg])
       /\ sendLog' # sendLog => awake
      ]_vars

\* C9 witness: a cool set point call made while asleep is being sent after
\* the device woke up.
C9_Witness ==
    \E i \in 1..Len(calls) :
        /\ calls[i].op = "cool" /\ calls[i].arg = 150
        /\ calls[i].pc = "awaiting" /\ calls[i].sent = 127
        /\ awake

\* C10: each call of a mutating operation of the wireless thermostat is
\* either waiting on the gate exactly once and not executed, or has been
\* executed exactly once as the operation that was called, with its one
\* transport send unless the link routine raised before it; executions and
\* their transport sends follow call order.
C10_OncePerCallInOrder ==
    LET queued(i) == {k \in 1..Len(wakeQueue) : wakeQueue[k].call = i}
        sends(i) == {k \in 1..Len(sendLog) : sendLog[k].call = i}
    IN  /\ \A i \in 1..Len(calls) :
              LET c == calls[i]
                  method == IF c.op = "links" THEN "links_on_wake" ELSE c.op
              IN  \/ /\ c.pc = "queued"
                     /\ Cardinality(queued(i)) = 1
                     /\ c.ran = "" /\ c.nsend = 0 /\ sends(i) = {}
                  \/ /\ c.pc # "queued"
                     /\ queued(i) = {}
                     /\ c.ran = method
                     /\ c.nsend = Cardinality(sends(i)) /\ c.nsend <= 1
                     /\ IsDone(i) => (c.nsend = 1 \/ c.result = "EXCEPTION")
        /\ \A i, j \in 1..Len(calls) : (i < j /\ calls[j].ran # "") => calls[i].ran # ""
        /\ \A k, l \in 1..Len(sendLog) : k < l => sendLog[k].call < sendLog[l].call
        /\ \A k, l \in 1..Len(wakeQueue) : k < l => wakeQueue[k].call < wakeQueue[l].call

\* C10 witness: two queued calls of the same operation were both executed
\* after wake, the first call's send before the second's.
C10_Witness ==
    /\ Len(calls) = 2
    /\ calls[1].op = "heat" /\ calls[2].op = "heat"
    /\ calls[1].arg # calls[2].arg
    /\ IsDone(1) /\ IsDone(2)
    /\ sendLog = <<[call |-> 1, kind |-> "cmd"], [call |-> 2, kind |-> "cmd"]>>

\* C11 as stated: whatever the caller of a public mutating operation of the
\* wireless thermostat has got back from awaiting the call is the result
\* status of its own deferred operation, which has then been executed.
C11_CallerGetsOwnResult ==
    \A i \in 1..Len(calls) :
        (device = "WirelessThermostat" /\ calls[i].ret # "PENDING")
          => /\ IsDone(i)
             /\ calls[i].ret \in ResponseStatuses
             /\ calls[i].ret = calls[i].result

\* C12 as stated: when the late response of an exchange whose caller has
\* cancelled is SUCCESS, the group of the operation holds the acknowledged
\* value after that step: the sent set point, or the LED state as
\* _update_leds stores it.
C12_LateSuccessKept ==
    [][\A i \in 1..Len(calls) :
          LET c == calls[i]
              d == calls'[i]
          IN  (c.pc = "cancelled" /\ d.pc = "done" /\ d.result = "SUCCESS") =>
                /\ c.ran = "cool" => groups'[GRP_COOL_SP] = c.sent
                /\ c.ran = "heat" => groups'[GRP_HEAT_SP] = c.sent
                /\ c.ran = "hum_hi" => groups'[GRP_HUMID_HI_SP] = c.sent
                /\ c.ran = "hum_lo" => groups'[GRP_HUMID_LO_SP] = c.sent
                /\ (IsLedCall(c) /\ c.arg \in DOMAIN groups) =>
                      groups'[c.arg] = UpdateLedsGroups(groups, c.arg, Requested(c))[c.arg]
      ]_vars

\* C13: when a keypad (status types 1 and 2 registered, 0 removed) or an
\* on/off outlet (type 1 registered, 0 removed) receives a status response
\* whose discriminator is not registered, type 0 included, the step changes
\* no group value and the status request ends as any other, with no
\* exception.
C13_UnknownStatusTypeIgnored ==
    [][\A i \in 1..Len(calls) :
          LET d == calls'[i]
              registered == IF device = "KeypadLinc" THEN {1, 2} ELSE {1}
          IN  (device \in {"KeypadLinc", "OnOffOutlet"}
                 /\ calls[i].pc # "done" /\ d.pc = "done"
                 /\ d.stype # NoneVal /\ d.stype \notin registered)
                => /\ groups' = groups
                   /\ d.ret \in ResponseStatuses
      ]_vars

\* C13 witness: the keypad's status refresh was answered with a response of
\* type 0 and the call has returned.
C13_Witness ==
    \E i \in 1..Len(calls) :
        /\ device = "KeypadLinc"
        /\ IsDone(i) /\ calls[i].nstatus = 1 /\ calls[i].stype = 0
        /\ calls[i].ret = "DIRECT_NAK_PRE_NAK"

\* C14 as stated, its last part: async_on / async_off with a group that is
\* not a button of the device raise instead of sending a command, so no
\* such call ever sends.
C14_BadGroupNeverSent ==
    \A i \in 1..Len(calls) :
        (device = "KeypadLinc" /\ calls[i].op \in {"on", "off"}
           /\ calls[i].arg \notin Buttons \cup {0})
          => /\ calls[i].nsend = 0
             /\ \A k \in 1..Len(sendLog) : sendLog[k].call # i

\* The step is configuration call or report number nops + 1.
IsOp(name) == nops' = nops + 1 /\ lastOp'.op = name

\* A bit of the effective value of a property (nothing is set in a property
\* that has neither a committed nor a pending value).
EffBit(prop, bit) == Effective(prop) # NoneVal /\ bit_is_set(Effective(prop), bit)

\* The radio groups looked at.
RadioSets == {{3, 4}, {3, 5}, {1, 3}}

\* The masks set_radio_buttons computes for the group B are committed.
RadioCommitted(B) ==
    \A b \in B :
        /\ IsLoaded(onMask[b]) /\ IsLoaded(offMask[b])
        /\ \A c \in B : /\ bit_is_set(onMask[b].value, c - 1) = (c # b)
                        /\ bit_is_set(offMask[b].value, c - 1) = (c # b)

\* C15 as stated: with the masks of set_radio_buttons(B) committed, when
\* the on-level manager of a button of B reports it on, the group value of
\* every other button of B is 0 after _led_follow_check.
C15_RadioButtonsExclusive ==
    [][\A B \in RadioSets :
          (IsOp("on_level") /\ lastOp'.button \in B /\ PyBool(lastOp'.mode)
             /\ RadioCommitted(B))
            => \A c \in B \ {lastOp'.button} : groups'[c] = 0
      ]_vars

\* C16 as stated: after clear_radio_buttons(B) every button of B has
\* pending on-mask and off-mask 0, and every other button whose effective on
\* or off mask referenced a button of B has the bits of all buttons of B
\* cleared in both masks and its other bits as they were.
C16_ClearedEverywhere ==
    [][IsOp("clear_radio_buttons") =>
          LET B == Range(lastOp'.buttons)
              refs(o) == \E b \in B : EffBit(onMask[o], b - 1) \/ EffBit(offMask[o], b - 1)
          IN  /\ \A b \in B : onMask'[b].new_value = 0 /\ offMask'[b].new_value = 0
              /\ \A o \in Buttons \ B :
                    refs(o) =>
                      \A bit \in 0..7 :
                          /\ EffBit(onMask'[o], bit) =
                                (bit + 1 \notin B /\ EffBit(onMask[o], bit))
                          /\ EffBit(offMask'[o], bit) =
                                (bit + 1 \notin B /\ EffBit(offMask[o], bit))
      ]_vars

\* C17 as stated: a set_radio_buttons or set_toggle_mode call that raises a
\* validation error has changed no committed and no pending value.
C17_RaiseChangesNothing ==
    [][(nops' = nops + 1 /\ lastOp'.raised # "") =>
          UNCHANGED <<onMask, offMask, nonToggleMask, toggleNew, onOffMask>>
      ]_vars

\* C18 as stated: set_toggle_mode(b, mode) stages at bit b-1 of the non-toggle mask
\* and of the non-toggle on/off mask (0,0) for TOGGLE, (1,1) for ON_ONLY and
\* (1,0) for OFF_ONLY, and every other bit of the two staged values is the
\* bit of the mask's pending value if there was one, else of its committed
\* value; so the bits staged by the call before, on another button, stay.
C18_ToggleModeStaged ==
    [][(IsOp("set_toggle_mode") /\ lastOp'.raised = "") =>
          LET b == lastOp'.button
              mode == lastOp'.mode
              was(value, new_value, bit) ==
                  IF new_value # NoneVal THEN bit_is_set(new_value, bit)
                  ELSE value # NoneVal /\ bit_is_set(value, bit)
          IN  /\ bit_is_set(toggleNew', b - 1) = (mode \in {1, 2})
              /\ bit_is_set(onOffMask'.new_value, b - 1) = (mode = 1)
              /\ \A bit \in 0..7 \ {b - 1} :
                    /\ bit_is_set(toggleNew', bit) = was(nonToggleMask, toggleNew, bit)
                    /\ bit_is_set(onOffMask'.new_value, bit) =
                          was(onOffMask.value, onOffMask.new_value, bit)
              /\ (lastOp.op = "set_toggle_mode" /\ lastOp.raised = ""
                    /\ lastOp.button # b) =>
                    /\ bit_is_set(toggleNew', lastOp.button - 1) = (lastOp.mode \in {1, 2})
                    /\ bit_is_set(onOffMask'.new_value, lastOp.button - 1) =
                          (lastOp.mode = 1)
      ]_vars

\* C19: after set_radio_buttons(B) with all buttons valid, the pending
\* on-mask and off-mask of every button b of B have, at the position of each
\* button c of B, the bit set when c is another button and clear when c is
\* b, and at every other position the bit of the mask's committed value.
C19_RadioMasksStaged ==
    [][(IsOp("set_radio_buttons") /\ lastOp'.raised = "") =>
          LET B == Range(lastOp'.buttons)
          IN  \A b \in B : \A bit \in 0..7 :
                  /\ onMask'[b].value = IF IsLoaded(onMask[b]) /\ IsLoaded(offMask[b])
                                        THEN onMask[b].value ELSE 0
                  /\ offMask'[b].value = IF IsLoaded(onMask[b]) /\ IsLoaded(offMask[b])
                                         THEN offMask[b].value ELSE 0
                  /\ bit_is_set(onMask'[b].new_value, bit) =
                        IF bit + 1 \in B THEN bit + 1 # b
                        ELSE bit_is_set(onMask'[b].value, bit)
                  /\ bit_is_set(offMask'[b].new_value, bit) =
                        IF bit + 1 \in B THEN bit + 1 # b
                        ELSE bit_is_set(offMask'[b].value, bit)
      ]_vars

\* C19 witness: button 3 had on-mask 24 and off-mask 8 committed and
\* set_radio_buttons((3, 5)) staged 24 and 24 for it: bit 4 set in both,
\* bit 3 as committed.
C19_Witness ==
    /\ lastOp = [NoOp EXCEPT !.op = "set_radio_buttons", !.buttons = <<3, 5>>]
    /\ onMask[3] = [value |-> 24, new_value |-> 24]
    /\ offMask[3] = [value |-> 8, new_value |-> 24]
    /\ onMask[5].new_value = 4 /\ offMask[5].new_value = 4

\* C20 as stated: after set_radio_buttons(B) the bits of the masks of a
\* button of B at positions outside B are the bits of the effective value
\* (pending if dirty, else committed) before the call, and the masks of the
\* buttons outside B are as before.
C20_PendingEditsKept ==
    [][(IsOp("set_radio_buttons") /\ lastOp'.raised = "") =>
          LET B == Range(lastOp'.buttons)
          IN  /\ \A b \in B : \A bit \in 0..7 :
                    bit + 1 \notin B =>
                      /\ EffBit(onMask'[b], bit) = EffBit(onMask[b], bit)
                      /\ EffBit(offMask'[b], bit) = EffBit(offMask[b], bit)
              /\ \A o \in Buttons \ B :
                    onMask'[o] = onMask[o] /\ offMask'[o] = offMask[o]
      ]_vars

\* C21 as stated: set_toggle_mode, set_radio_buttons and clear_radio_buttons
\* leave the committed value of every mask that is loaded as it is, whether
\* or not its partner mask is loaded, and give a mask that was never loaded
\* no committed value other than 0.
C21_LoadedMasksKept ==
    [][(IsOp("set_toggle_mode") \/ IsOp("set_radio_buttons")
            \/ IsOp("clear_radio_buttons")) =>
          LET kept(before, after) ==
                  IF before # NoneVal THEN after = before
                  ELSE after \in {NoneVal, 0}
          IN  /\ \A b \in Buttons :
                    /\ kept(onMask[b].value, onMask'[b].value)
                    /\ kept(offMask[b].value, offMask'[b].value)
              /\ kept(nonToggleMask, nonToggleMask')
              /\ kept(onOffMask.value, onOffMask'.value)
      ]_vars

\* A call of the keypad gets the status of its command back in this step.
Returns(i, op, status) ==
    /\ i \in 1..Len(calls)
    /\ calls[i].pc = "awaiting"
    /\ calls[i].op = op
    /\ calls'[i].pc = "done"
    /\ calls'[i].ret = status

\* C22 as stated: when async_on(g) of an LED button g >= 2 returns SUCCESS,
\* the group of g holds 0 if bit g-1 of the committed non-toggle mask is set,
\* the bit set_toggle_mode writes for button g, and 0xFF otherwise.
C22_ToggleBitOfButton ==
    [][\A i \in 1..MaxCalls :
          (Returns(i, "on", "SUCCESS") /\ calls[i].arg \in Buttons \ {1}) =>
              LET g == calls[i].arg
              IN  groups'[g] = IF nonToggleMask # NoneVal
                                   /\ bit_is_set(nonToggleMask, g - 1)
                                THEN 0 ELSE 255
      ]_vars

\* C23: a status response of type 1 with status byte s gives every button
\* g of 2..8 that has a group the value of bit g-1 of s, and leaves group 1
\* and the set of groups as they were.
C23_LedStatusFrame ==
    [][\A i \in 1..MaxCalls :
          (i \in 1..Len(calls) /\ calls[i].pc = "status" /\ calls'[i].pc = "done"
              /\ calls'[i].stype = 1) =>
              LET s == calls'[i].raw
              IN  /\ DOMAIN groups' = DOMAIN groups
                  /\ groups'[1] = groups[1]
                  /\ \A g \in DOMAIN groups \cap 2..8 :
                        groups'[g] = IF bit_is_set(s, g - 1) THEN 1 ELSE 0
      ]_vars

\* C23 witness: with the main load on, the refresh of a refused async_on(3)
\* decoded status byte 4 of type 1: button 3 is on, the other buttons are
\* off, group 1 is as it was.
C23_Witness ==
    /\ Len(calls) = 2
    /\ calls[1].op = "on" /\ calls[1].arg = 1 /\ calls[1].ret = "SUCCESS"
    /\ calls[2].pc = "done" /\ calls[2].stype = 1 /\ calls[2].raw = 4
    /\ groups = (1 :> 255 @@ 3 :> 1 @@ 4 :> 0 @@ 5 :> 0 @@ 6 :> 0)

\* C24: the first notification of a CELSIUS value after registration sends
\* nothing and leaves _async_temp_format_changed subscribed in place of
\* _temp_format_first_set; every later notification of a value issues
\* exactly one status request and leaves the subscriber as it is.
C24_FirstFormatSetIsSilent ==
    [][(celsius' # celsius \/ celsiusSub' # celsiusSub) =>
          IF celsius = "None"
          THEN /\ celsiusSub = "_temp_format_first_set"
               /\ celsiusSub' = "_async_temp_format_changed"
               /\ sendLog' = sendLog
               /\ calls' = calls
          ELSE /\ celsiusSub = "_async_temp_format_changed"
               /\ celsiusSub' = celsiusSub
               /\ Len(calls') = Len(calls) + 1
               /\ calls'[Len(calls')].nstatus = 1
               /\ calls'[Len(calls')].nsend = 0
               /\ sendLog' = Append(sendLog, [call |-> Len(calls'), kind |-> "status"])
      ]_vars

\* C24 witness: CELSIUS was notified twice, false then true, and the only
\* request sent is the status request of the second notification.
C24_Witness ==
    /\ celsius = "True"
    /\ celsiusSub = "_async_temp_format_changed"
    /\ Len(calls) = 1 /\ calls[1].op = "status" /\ calls[1].arg = 1
    /\ sendLog = <<[call |-> 1, kind |-> "status"]>>

\* C25 as stated: a temperature notified through _temp_received is stored
\* in the temperature group as a status response stores the same raw
\* value: converted to Fahrenheit unless CELSIUS is true.
C25_NotifiedTemperatureConverted ==
    [][(lastOp'.op = "_temp_received" /\ calls' = calls
            /\ <<celsius, celsiusSub>>' = <<celsius, celsiusSub>>) =>
          groups'[GRP_TEMP] =
              StatusReceived(groups, [system_mode |-> 0, fan_mode |-> 0,
                  cool_set_point |-> 0, humidity |-> 0, cooling |-> 0,
                  heating |-> 0, heat_set_point |-> 0,
                  temperature |-> lastOp'.degrees])[GRP_TEMP]
      ]_vars

\* The status request of call i is answered in this step and a frame is
\* decoded for it.
Decoded(i) ==
    /\ i \in 1..Len(calls)
    /\ calls[i].pc # "done"
    /\ calls'[i].pc = "done"
    /\ calls'[i].frame # <<>>

\* C26: a full status frame sets the cooling, heating, system mode, fan
\* mode, cool set point, heat set point, temperature and humidity groups
\* from its fields of these names and no other group; a set point frame sets
\* the cool, heat, humidity high and humidity low set point groups from its
\* fields and no other group.
C26_StatusFramesSetTheirGroups ==
    [][\A i \in 1..MaxCalls : Decoded(i) =>
          LET f == calls'[i].frame
              full == {GRP_COOL_ON, GRP_HEAT_ON, GRP_SYS_MODE, GRP_FAN_MODE,
                       GRP_COOL_SP, GRP_HEAT_SP, GRP_TEMP, GRP_HUMID}
              points == {GRP_COOL_SP, GRP_HEAT_SP, GRP_HUMID_HI_SP, GRP_HUMID_LO_SP}
          IN  IF f \in StatusFrames
              THEN /\ groups'[GRP_COOL_ON] = (IF f.cooling # 0 THEN 255 ELSE 0)
                   /\ groups'[GRP_HEAT_ON] = (IF f.heating # 0 THEN 255 ELSE 0)
                   /\ groups'[GRP_SYS_MODE] = f.system_mode
                   /\ groups'[GRP_FAN_MODE] = f.fan_mode
                   /\ groups'[GRP_COOL_SP] = f.cool_set_point
                   /\ groups'[GRP_HEAT_SP] = f.heat_set_point
                   /\ groups'[GRP_TEMP] = (IF celsius = "True" THEN f.temperature
                                           ELSE to_fahrenheit(f.temperature))
                   /\ groups'[GRP_HUMID] = f.humidity
                   /\ \A g \in DOMAIN groups \ full : groups'[g] = groups[g]
              ELSE /\ groups'[GRP_COOL_SP] = f.cool_set_point
                   /\ groups'[GRP_HEAT_SP] = f.heat_set_point
                   /\ groups'[GRP_HUMID_HI_SP] = f.humidity_high
                   /\ groups'[GRP_HUMID_LO_SP] = f.humidity_low
                   /\ \A g \in DOMAIN groups \ points : groups'[g] = groups[g]
      ]_vars

\* C26 witness: a full status frame and then a set point frame were decoded:
\* the set points are those of the set point frame, the humidity set points
\* were 0 until it came, and the other groups are those of the status frame.
C26_Witness ==
    /\ Len(calls) = 2
    /\ IsDone(1) /\ calls[1].frame \in StatusFrames /\ calls[1].raw = 200
    /\ IsDone(2) /\ calls[2].frame \in SetPointFrames
    /\ celsius = "None"
    /\ groups = (GRP_COOL_ON :> 0) @@ (GRP_HEAT_ON :> 255) @@
                (GRP_HUMID_HI_ON :> NoneVal) @@ (GRP_HUMID_LO_ON :> NoneVal) @@
                (GRP_TEMP :> 392) @@ (GRP_HUMID :> 40) @@ (GRP_SYS_MODE :> 1) @@
                (GRP_FAN_MODE :> 4) @@ (GRP_COOL_SP :> 77) @@ (GRP_HEAT_SP :> 66) @@
                (GRP_HUMID_HI_SP :> 60) @@ (GRP_HUMID_LO_SP :> 20)

\* C27: when the set mode command of mode m is acknowledged, the fan mode
\* group takes m if m is FAN_ALWAYS_ON or FAN_AUTO, else the system mode
\* group takes m, and every other group keeps its value.
C27_ModeSetsOneGroup ==
    [][\A i \in 1..MaxCalls :
          (Returns(i, "mode", "SUCCESS") /\ calls'[i].result = "SUCCESS") =>
              LET m == calls[i].sent
                  target == IF m \in {MODE_FAN_ALWAYS_ON, MODE_FAN_AUTO}
                            THEN GRP_FAN_MODE ELSE GRP_SYS_MODE
              IN  /\ m = calls[i].arg
                  /\ groups'[target] = m
                  /\ \A g \in DOMAIN groups \ {target} : groups'[g] = groups[g]
      ]_vars

\* C27 witness: HEAT and then FAN_ALWAYS_ON were set and acknowledged: the
\* system mode is HEAT, the fan mode is FAN_ALWAYS_ON.
C27_Witness ==
    /\ Len(calls) = 2
    /\ calls[1].op = "mode" /\ calls[1].arg = MODE_HEAT /\ calls[1].ret = "SUCCESS"
    /\ calls[2].op = "mode" /\ calls[2].arg = MODE_FAN_ALWAYS_ON
    /\ calls[2].ret = "SUCCESS"
    /\ groups[GRP_SYS_MODE] = MODE_HEAT
    /\ groups[GRP_FAN_MODE] = MODE_FAN_ALWAYS_ON

\* C28: async_set_humidity_high_set_point(h) sends min(h, 99) and
\* async_set_humidity_low_set_point(h) sends max(h, 1); when the command
\* returns SUCCESS the set point group holds the value sent, at most 99 for
\* the high and at least 1 for the low set point.
C28_HumidityClamped ==
    [][\A i \in 1..MaxCalls :
          /\ (i \in 1..Len(calls') /\ calls'[i].op = "hum_hi"
                  /\ calls'[i].pc # "new") =>
                calls'[i].sent = (IF calls'[i].arg < 99 THEN calls'[i].arg ELSE 99)
          /\ (i \in 1..Len(calls') /\ calls'[i].op = "hum_lo"
                  /\ calls'[i].pc # "new") =>
                calls'[i].sent = (IF calls'[i].arg > 1 THEN calls'[i].arg ELSE 1)
          /\ Returns(i, "hum_hi", "SUCCESS") =>
                /\ groups'[GRP_HUMID_HI_SP] = calls[i].sent
                /\ groups'[GRP_HUMID_HI_SP] <= 99
          /\ Returns(i, "hum_lo", "SUCCESS") =>
                /\ groups'[GRP_HUMID_LO_SP] = calls[i].sent
                /\ groups'[GRP_HUMID_LO_SP] >= 1
      ]_vars

\* C28 witness: the high set point was set to 120 and the low set point
\* to -3, both acknowledged: the groups hold 99 and 1.
C28_Witness ==
    /\ Len(calls) = 2
    /\ calls[1].op = "hum_hi" /\ calls[1].arg = 120 /\ calls[1].ret = "SUCCESS"
    /\ calls[2].op = "hum_lo" /\ calls[2].arg = 0 - 3 /\ calls[2].ret = "SUCCESS"
    /\ groups[GRP_HUMID_HI_SP] = 99
    /\ groups[GRP_HUMID_LO_SP] = 1

\* The events an async_on / async_off call that has returned has triggered,
\* as C29 has them: one event of its group, ON_EVENT with 0xFF or OFF_EVENT
\* with 0, when the group is registered and the call returned SUCCESS, and
\* none otherwise.
C29_Events(d) ==
    d.events = IF d.arg \in DOMAIN groups /\ d.ret = "SUCCESS"
               THEN (IF d.op = "on" THEN << <<d.arg, "ON_EVENT", 255>> >>
                     ELSE << <<d.arg, "OFF_EVENT", 0>> >>)
               ELSE <<>>

\* Call i of the keypad takes a step of its own.
C29_StepOf(i) ==
    /\ i \in 1..Len(calls)
    /\ calls[i].op \in {"on", "off"}
    /\ calls'[i] # calls[i]

LinksRunning(i) ==
    /\ calls[i].ran = "links_on_wake"
    /\ calls[i].pc \in {"links", "awaiting"}

\* C30: when async_add_default_links_on_wake starts it binds the on-wake
\* variants to aldb.async_write and aldb.async_load, and when it ends, by
\* its return or by an exception of one of its two awaits, the two are the
\* methods that were bound when it started.
C30_AldbBoundBack ==
    [][\A i \in 1..MaxCalls :
          /\ (i \in 1..Len(calls') /\ calls'[i].pc = "links"
                  /\ (i > Len(calls) \/ calls[i].pc # "links")) =>
                /\ calls'[i].saved = <<aldb.write, aldb.load>>
                /\ aldb' = [write |-> "async_write_on_wake",
                            load |-> "async_load_on_wake"]
          /\ (i \in 1..Len(calls) /\ LinksRunning(i) /\ calls'[i].pc = "done") =>
                aldb' = [write |-> calls[i].saved[1], load |-> calls[i].saved[2]]
      ]_vars

\* C30 witness: the routine has run twice, once ended by an exception and
\* once by its return, and the aldb methods are the original ones.
C30_Witness ==
    /\ Len(calls) = 2
    /\ \A i \in 1..2 : calls[i].ran = "links_on_wake" /\ IsDone(i)
    /\ calls[1].result = "EXCEPTION"
    /\ calls[2].result = "SUCCESS"
    /\ aldb = [write |-> "async_write", load |-> "async_load"]

\* C31 as stated: however executions of async_add_default_links_on_wake
\* overlap, once none of them is running aldb.async_write and
\* aldb.async_load are the original methods.
C31_OverlapRestoresOriginal ==
    (\A i \in 1..Len(calls) : ~LinksRunning(i)) =>
        aldb = [write |-> "async_write", load |-> "async_load"]

\* C32: the lock is held by a call only while its SET_LEDS exchange is in
\* flight, so not after the exchange has ended with a status, an exception
\* or the cancellation of the caller, and not during the status refresh; and
\* every async_on / async_off on an LED button made its send under the lock
\* and has returned in the end, unless its caller cancelled it.
C32_LockReleasedAndLive ==
    /\ [](\A i \in 1..Len(calls) :
            lockHolder = i => (IsLedCall(calls[i]) /\ calls[i].pc = "awaiting"))
    /\ [](lockHolder # 0 => lockHolder \in 1..Len(calls))
    /\ \A i \in 1..MaxCalls :
          (i \in 1..Len(calls) /\ IsLedCall(calls[i]))
            ~> (/\ i \in 1..Len(calls)
                /\ calls[i].nsend = 1
                /\ calls[i].pc = "done" \/ calls[i].ret = "CANCELLED")

\* C32 witness: an LED call that had to wait for the lock has returned
\* after the call before it was refused and refreshed the status.
C32_Witness ==
    /\ Len(calls) = 2
    /\ IsLedCall(calls[1]) /\ IsLedCall(calls[2])
    /\ 1 \in calls[2].during
    /\ calls[1].ret = "DIRECT_NAK_PRE_NAK" /\ calls[1].nstatus = 1 /\ IsDone(1)
    /\ calls[2].ret = "SUCCESS" /\ IsDone(2)
    /\ lockHolder = 0

=============================================================================
